---- MODULE Spec2Model ----
(***************************************************************************)
(* rustic: Option / Result containers, panic, and the format / write       *)
(* operations built on the printf-style format-string engine.              *)
(*                                                                         *)
(* A string is a sequence of one-character strings; a byte is an integer.  *)
(* A value handed to the engine is a tagged record: [t |-> "num", n |-> k] *)
(* for a number, [t |-> "str", s |-> chars] for a string, [t |-> "arr",    *)
(* a |-> values] for an array.                                             *)
(***************************************************************************)
EXTENDS Integers, Sequences, FiniteSets, TLC

VARIABLES formatter, args, cur, ret, stream, wres, opt, oret, res, rret

vars == <<formatter, args, cur, ret, stream, wres, opt, oret, res, rret>>

fmtVars == <<formatter, args, cur, ret, stream, wres>>

optVars == <<opt, oret>>

resVars == <<res, rret>>

(***************************************************************************)
(* Bounds of the model.                                                    *)
(***************************************************************************)
\* number of template pieces concatenated into one generated template
MaxPieces == 2

\* largest width / precision handed to a '*' directive in the star inputs
MaxStar == 3

\* largest value stored in an Option or a Result
MaxVal == 2

(***************************************************************************)
(* Strings, characters, numbers.                                           *)
(***************************************************************************)
Num(k) == [t |-> "num", n |-> k]

Str(s) == [t |-> "str", s |-> s]

Arr(a) == [t |-> "arr", a |-> a]

DecChars == <<"0","1","2","3","4","5","6","7","8","9">>

LowerDigits == <<"0","1","2","3","4","5","6","7","8","9","a","b","c","d","e","f">>

UpperDigits == <<"0","1","2","3","4","5","6","7","8","9","A","B","C","D","E","F">>

IsDigit(c) == \E k \in 1..10 : DecChars[k] = c

DigitVal(c) == (CHOOSE k \in 1..10 : DecChars[k] = c) - 1

Rep(c, k) == [j \in 1..k |-> c]

Abs(n) == IF n < 0 THEN -n ELSE n

RECURSIVE Radix(_, _, _)
\* the digits of the natural number n in the given base
Radix(n, base, digits) ==
  IF n < base THEN <<digits[n + 1]>>
  ELSE Radix(n \div base, base, digits) \o <<digits[(n % base) + 1]>>

Take(s, k) == IF k >= Len(s) THEN s ELSE SubSeq(s, 1, k)

\* TextEncoder: the UTF-8 code of each character of the ASCII range
CharCode ==
  " " :> 32 @@ "!" :> 33 @@ "#" :> 35 @@ "$" :> 36 @@ "%" :> 37 @@ "&" :> 38 @@
  "'" :> 39 @@ "(" :> 40 @@ ")" :> 41 @@ "*" :> 42 @@ "+" :> 43 @@ "," :> 44 @@
  "-" :> 45 @@ "." :> 46 @@ "/" :> 47 @@ "0" :> 48 @@ "1" :> 49 @@ "2" :> 50 @@
  "3" :> 51 @@ "4" :> 52 @@ "5" :> 53 @@ "6" :> 54 @@ "7" :> 55 @@ "8" :> 56 @@
  "9" :> 57 @@ ":" :> 58 @@ ";" :> 59 @@ "<" :> 60 @@ "=" :> 61 @@ ">" :> 62 @@
  "?" :> 63 @@ "@" :> 64 @@ "A" :> 65 @@ "B" :> 66 @@ "C" :> 67 @@ "D" :> 68 @@
  "E" :> 69 @@ "F" :> 70 @@ "G" :> 71 @@ "H" :> 72 @@ "I" :> 73 @@ "J" :> 74 @@
  "K" :> 75 @@ "L" :> 76 @@ "M" :> 77 @@ "N" :> 78 @@ "O" :> 79 @@ "P" :> 80 @@
  "Q" :> 81 @@ "R" :> 82 @@ "S" :> 83 @@ "T" :> 84 @@ "U" :> 85 @@ "V" :> 86 @@
  "W" :> 87 @@ "X" :> 88 @@ "Y" :> 89 @@ "Z" :> 90 @@ "[" :> 91 @@ "]" :> 93 @@
  "^" :> 94 @@ "_" :> 95 @@ "a" :> 97 @@ "b" :> 98 @@ "c" :> 99 @@ "d" :> 100 @@
  "e" :> 101 @@ "f" :> 102 @@ "g" :> 103 @@ "h" :> 104 @@ "i" :> 105 @@ "j" :> 106 @@
  "k" :> 107 @@ "l" :> 108 @@ "m" :> 109 @@ "n" :> 110 @@ "o" :> 111 @@ "p" :> 112 @@
  "q" :> 113 @@ "r" :> 114 @@ "s" :> 115 @@ "t" :> 116 @@ "u" :> 117 @@ "v" :> 118 @@
  "w" :> 119 @@ "x" :> 120 @@ "y" :> 121 @@ "z" :> 122 @@ "{" :> 123 @@ "|" :> 124 @@
  "}" :> 125 @@ "~" :> 126

encode(s) == [k \in 1..Len(s) |-> CharCode[s[k]]]

(***************************************************************************)
(* Error tokens of the engine.  The text of the bad-verb and the           *)
(* missing-argument token is documented (src/Result.ts:252-266); a failed  *)
(* numeric coercion and a directive with no verb yield a token of the same *)
(* shape whose text is not documented.                                     *)
(***************************************************************************)
BadVerbToken(v) == <<"%","!","(","B","A","D"," ","V","E","R","B"," ","'">> \o <<v>> \o <<"'",")">>

MissingToken(v) == <<"%","!","(","M","I","S","S","I","N","G"," ","'">> \o <<v>> \o <<"'",")">>

BadTypeToken(v) == <<"%","!","(","B","A","D"," ","T","Y","P","E"," ","'">> \o <<v>> \o <<"'",")">>

NoVerbToken == <<"%","!","(","N","O","V","E","R","B",")">>

(***************************************************************************)
(* Directive Parser.                                                       *)
(*   '%' ['[' INDEX ']'] FLAGS* WIDTH ['.' PRECISION] VERB                 *)
(***************************************************************************)
FlagChars == {"+", "-", "#", " ", "0"}

\* the dispatch table's verbs
Verbs == {"t", "b", "o", "x", "X", "c", "d", "e", "E", "f", "F", "g", "G",
          "s", "T", "v", "j", "J", "i", "I", "?", "%"}

At(t, i) == IF i >= 1 /\ i <= Len(t) THEN t[i] ELSE "EOF"

RECURSIVE DigitsEnd(_, _)
\* the first position at or after i that holds no decimal digit
DigitsEnd(t, i) == IF IsDigit(At(t, i)) THEN DigitsEnd(t, i + 1) ELSE i

RECURSIVE DigitsVal(_, _, _, _)
\* the decimal value of t[i..e-1], continuing from acc
DigitsVal(t, i, e, acc) ==
  IF i >= e THEN acc ELSE DigitsVal(t, i + 1, e, acc * 10 + DigitVal(t[i]))

RECURSIVE FlagsEnd(_, _)
FlagsEnd(t, i) == IF At(t, i) \in FlagChars THEN FlagsEnd(t, i + 1) ELSE i

\* '[' INDEX ']' at position i: the index and the position after ']'
ParseIndex(t, i) ==
  LET e == DigitsEnd(t, i + 1)
  IN IF At(t, i) = "[" /\ e > i + 1 /\ At(t, e) = "]"
     THEN [ok |-> TRUE, n |-> DigitsVal(t, i + 1, e, 0), end |-> e + 1]
     ELSE [ok |-> FALSE, n |-> 0, end |-> IF e > Len(t) THEN e ELSE e + 1]

Absent == [kind |-> "absent", n |-> 0]

\* DIGITS | '*' | '*[' INDEX ']' at position i
ParseSpec(t, i) ==
  IF IsDigit(At(t, i))
  THEN LET e == DigitsEnd(t, i)
       IN [ok |-> TRUE, end |-> e,
           spec |-> [kind |-> "literal", n |-> DigitsVal(t, i, e, 0)]]
  ELSE IF At(t, i) = "*"
  THEN IF At(t, i + 1) = "["
       THEN LET ix == ParseIndex(t, i + 1)
            IN [ok |-> ix.ok, end |-> ix.end,
                spec |-> [kind |-> "fromArgAt", n |-> ix.n]]
       ELSE [ok |-> TRUE, end |-> i + 1, spec |-> [kind |-> "fromArg", n |-> 0]]
  ELSE [ok |-> TRUE, end |-> i, spec |-> Absent]

Malformed(e) ==
  [ok |-> FALSE, explicitIndex |-> 0, hasIndex |-> FALSE, flags |-> {},
   width |-> Absent, precision |-> Absent, verb |-> "EOF", end |-> e]

\* the verb character at position ve closes the directive
ParseVerb(t, hasIx, n, flags, ws, ps, ve) ==
  IF ve > Len(t) THEN Malformed(ve)
  ELSE [ok |-> TRUE, explicitIndex |-> n, hasIndex |-> hasIx, flags |-> flags,
        width |-> ws, precision |-> ps, verb |-> t[ve], end |-> ve + 1]

\* pr is the precision parsed after '.'; an empty precision means 0
AfterPrecision(t, hasIx, n, flags, ws, pr) ==
  IF ~pr.ok THEN Malformed(pr.end)
  ELSE ParseVerb(t, hasIx, n, flags, ws,
                 IF pr.spec.kind = "absent" THEN [kind |-> "literal", n |-> 0]
                 ELSE pr.spec,
                 pr.end)

\* w is the width parsed after the flags
AfterWidth(t, hasIx, n, flags, w) ==
  IF ~w.ok THEN Malformed(w.end)
  ELSE IF At(t, w.end) = "."
  THEN AfterPrecision(t, hasIx, n, flags, w.spec, ParseSpec(t, w.end + 1))
  ELSE ParseVerb(t, hasIx, n, flags, w.spec, Absent, w.end)

\* the flags occupy positions fs..fe-1
AfterFlags(t, hasIx, n, fs, fe) ==
  AfterWidth(t, hasIx, n, {t[k] : k \in fs..(fe - 1)}, ParseSpec(t, fe))

\* ix is the explicit index parsed after '%'
AfterIndex(t, ix) ==
  IF ~ix.ok THEN Malformed(ix.end)
  ELSE AfterFlags(t, TRUE, ix.n, ix.end, FlagsEnd(t, ix.end))

\* the directive whose '%' is at position i of t
ParseDirective(t, i) ==
  IF At(t, i + 1) = "[" THEN AfterIndex(t, ParseIndex(t, i + 1))
  ELSE AfterFlags(t, FALSE, 0, i + 1, FlagsEnd(t, i + 1))

(***************************************************************************)
(* Argument Cursor.  c is nextImplicitIndex, counted from 0.  A lookup out *)
(* of bounds fails with the missing-argument condition and leaves the      *)
(* cursor where it was.                                                    *)
(***************************************************************************)
\* the argument at the cursor; the cursor advances by one
nextArg(a, c) ==
  IF c >= 0 /\ c < Len(a)
  THEN [ok |-> TRUE, val |-> a[c + 1], idx |-> c, next |-> c + 1]
  ELSE [ok |-> FALSE, val |-> Num(0), idx |-> -1, next |-> c]

\* the argument at absolute index i; the cursor moves to i + 1 only when the
\* lookup is the one attached to the directive
argAt(a, c, i, attached) ==
  IF i >= 0 /\ i < Len(a)
  THEN [ok |-> TRUE, val |-> a[i + 1], idx |-> i,
        next |-> IF attached THEN i + 1 ELSE c]
  ELSE [ok |-> FALSE, val |-> Num(0), idx |-> -1, next |-> c]

\* a width or precision: absent, literal, read at the cursor, or read at [n]
ResolveSpec(a, c, spec) ==
  IF spec.kind = "absent" THEN [st |-> "absent", n |-> 0, next |-> c]
  ELSE IF spec.kind = "literal" THEN [st |-> "ok", n |-> spec.n, next |-> c]
  ELSE LET g == IF spec.kind = "fromArg" THEN nextArg(a, c)
                ELSE argAt(a, c, spec.n - 1, FALSE)
       IN IF ~g.ok THEN [st |-> "missing", n |-> 0, next |-> g.next]
          ELSE IF g.val.t # "num" THEN [st |-> "badtype", n |-> 0, next |-> g.next]
          ELSE [st |-> "ok", n |-> g.val.n, next |-> g.next]

(***************************************************************************)
(* Verb Formatter: one argument to an unpadded sign and body.              *)
(***************************************************************************)
\* the verbs whose conversion is modelled; templates use no other known verb
ModelledVerbs == {"t", "b", "o", "x", "X", "d", "f", "F", "s", "T", "v", "%"}

SignOf(n, flags) ==
  IF n < 0 THEN <<"-">>
  ELSE IF "+" \in flags THEN <<"+">>
  ELSE IF " " \in flags THEN <<" ">>
  ELSE <<>>

Decimal(n) == (IF n < 0 THEN <<"-">> ELSE <<>>) \o Radix(Abs(n), 10, DecChars)

RECURSIVE Stringify(_)
RECURSIVE JoinValues(_)
JoinValues(a) ==
  IF Len(a) = 0 THEN <<>>
  ELSE IF Len(a) = 1 THEN Stringify(a[1])
  ELSE Stringify(a[1]) \o <<",">> \o JoinValues(Tail(a))

\* plain stringification of a value
Stringify(v) ==
  IF v.t = "num" THEN Decimal(v.n)
  ELSE IF v.t = "str" THEN v.s
  ELSE JoinValues(v.a)

TypeTag(v) ==
  IF v.t = "num" THEN <<"n","u","m","b","e","r">>
  ELSE IF v.t = "str" THEN <<"s","t","r","i","n","g">>
  ELSE <<"o","b","j","e","c","t">>

Truthy(v) ==
  IF v.t = "num" THEN v.n # 0
  ELSE IF v.t = "str" THEN Len(v.s) > 0
  ELSE TRUE

RECURSIVE HexBytes(_, _, _)
\* the bytes of s as hex pairs, separated by spaces when spaced
HexBytes(s, digits, spaced) ==
  IF Len(s) = 0 THEN <<>>
  ELSE LET b    == CharCode[s[1]]
           pair == <<digits[(b \div 16) + 1], digits[(b % 16) + 1]>>
       IN IF Len(s) = 1 THEN pair
          ELSE pair \o (IF spaced THEN <<" ">> ELSE <<>>)
                    \o HexBytes(Tail(s), digits, spaced)

Unpadded(sign, body) == [ok |-> TRUE, sign |-> sign, body |-> body]

Failed == [ok |-> FALSE, sign |-> <<>>, body |-> <<>>]

BasePrefix(verb, flags) ==
  IF "#" \notin flags THEN <<>>
  ELSE IF verb = "b" THEN <<"0","b">>
  ELSE IF verb = "o" THEN <<"0">>
  ELSE IF verb = "x" THEN <<"0","x">>
  ELSE <<"0","X">>

\* prec is [has, n]
VerbFormatter(verb, v, flags, prec) ==
  CASE verb = "t" ->
         Unpadded(<<>>, IF Truthy(v) THEN <<"t","r","u","e">> ELSE <<"f","a","l","s","e">>)
    [] verb = "d" ->
         IF v.t # "num" THEN Failed
         ELSE Unpadded(SignOf(v.n, flags), Radix(Abs(v.n), 10, DecChars))
    [] verb \in {"b", "o"} ->
         IF v.t # "num" THEN Failed
         ELSE Unpadded(SignOf(v.n, flags) \o BasePrefix(verb, flags),
                       Radix(Abs(v.n), IF verb = "b" THEN 2 ELSE 8, DecChars))
    [] verb \in {"x", "X"} ->
         LET digits == IF verb = "x" THEN LowerDigits ELSE UpperDigits
         IN IF v.t = "num"
            THEN Unpadded(SignOf(v.n, flags) \o BasePrefix(verb, flags),
                          Radix(Abs(v.n), 16, digits))
            ELSE IF v.t = "str"
            THEN Unpadded(<<>>,
                   HexBytes(IF prec.has THEN Take(v.s, prec.n) ELSE v.s,
                            digits, " " \in flags))
            ELSE Failed
    [] verb \in {"f", "F"} ->
         IF v.t # "num" THEN Failed
         ELSE LET p == IF prec.has THEN prec.n ELSE 6
              IN Unpadded(SignOf(v.n, flags),
                          Radix(Abs(v.n), 10, DecChars)
                            \o (IF p > 0 THEN <<".">> \o Rep("0", p) ELSE <<>>))
    [] verb = "s" ->
         LET s == Stringify(v)
         IN Unpadded(<<>>, IF prec.has THEN Take(s, prec.n) ELSE s)
    [] verb = "T" -> Unpadded(<<>>, TypeTag(v))
    [] verb = "v" -> Unpadded(<<>>, Stringify(v))

(***************************************************************************)
(* Padder.                                                                 *)
(***************************************************************************)
Padder(sign, body, width, flags) ==
  LET n == Len(sign) + Len(body)
  IN IF n >= width THEN sign \o body
     ELSE IF "-" \in flags THEN sign \o body \o Rep(" ", width - n)
     ELSE IF "0" \in flags THEN sign \o Rep("0", width - n) \o body
     ELSE Rep(" ", width - n) \o sign \o body

(***************************************************************************)
(* Assembler: one directive, then the whole render.                        *)
(***************************************************************************)
NoDirective ==
  [kind |-> "none", dir |-> Malformed(0), sign |-> <<>>, body |-> <<>>,
   width |-> 0, text |-> <<>>, argIdx |-> -1, before |-> -1]

\* what one directive yields: its text, the cursor and the position after it,
\* the argument consumed last, and the record of the directive
Token(d, kind, text, nx, li, before) ==
  [text |-> text, next |-> nx, end |-> d.end, lastIdx |-> li,
   last |-> [kind |-> kind, dir |-> d, sign |-> <<>>, body |-> <<>>,
             width |-> 0, text |-> text, argIdx |-> -1, before |-> before]]

Padded(d, wd, g, u, text, before) ==
  [text |-> text, next |-> g.next, end |-> d.end, lastIdx |-> g.idx,
   last |-> [kind |-> "padded", dir |-> d, sign |-> u.sign, body |-> u.body,
             width |-> wd, text |-> text, argIdx |-> g.idx, before |-> before]]

\* the index consumed last once the lookup r of spec is done
SpecIdx(spec, r, li) ==
  IF spec.kind = "fromArg" /\ r.st # "missing" THEN r.next - 1 ELSE li

\* u is the verb's conversion of the argument g
WithUnpadded(d, wd, g, u, before) ==
  IF ~u.ok
  THEN [Token(d, "badtype", BadTypeToken(d.verb), g.next, g.idx, before)
          EXCEPT !.last.argIdx = g.idx]
  ELSE Padded(d, wd, g, u, Padder(u.sign, u.body, wd, d.flags), before)

\* g is the lookup of the directive's own argument
WithArg(d, wd, pr, g, li, before) ==
  IF ~g.ok THEN Token(d, "missing", MissingToken(d.verb), g.next, li, before)
  ELSE WithUnpadded(d, wd, g, VerbFormatter(d.verb, g.val, d.flags, pr), before)

\* p is the resolved precision
WithPrecision(a, d, wd, p, li, before) ==
  IF p.st = "missing"
  THEN Token(d, "missing", MissingToken(d.verb), p.next, li, before)
  ELSE IF p.st = "badtype"
  THEN Token(d, "badtype", BadTypeToken(d.verb), p.next, li, before)
  ELSE WithArg(d, wd, [has |-> p.st = "ok" /\ p.n >= 0, n |-> p.n],
               IF d.hasIndex THEN argAt(a, p.next, d.explicitIndex - 1, TRUE)
               ELSE nextArg(a, p.next),
               li, before)

\* p is the resolved precision, li the index consumed last before it
PrecisionLookup(a, d, wd, p, li, before) ==
  WithPrecision(a, d, wd, p, SpecIdx(d.precision, p, li), before)

\* w is the resolved width
WithWidth(a, d, w, li, before) ==
  IF w.st = "missing"
  THEN Token(d, "missing", MissingToken(d.verb), w.next, li, before)
  ELSE IF w.st = "badtype"
  THEN Token(d, "badtype", BadTypeToken(d.verb), w.next, li, before)
  ELSE PrecisionLookup(a, d, IF w.st = "ok" THEN w.n ELSE 0,
                       ResolveSpec(a, w.next, d.precision), li, before)

WidthLookup(a, d, w, before) ==
  WithWidth(a, d, w, SpecIdx(d.width, w, before), before)

\* the parsed directive d rendered with the cursor at c, the most recently
\* consumed argument being lastIdx
ResolveParsed(a, c, lastIdx, d) ==
  IF ~d.ok THEN Token(d, "malformed", NoVerbToken, c, lastIdx, lastIdx)
  ELSE IF d.verb \notin Verbs
  THEN Token(d, "badverb", BadVerbToken(d.verb), c, lastIdx, lastIdx)
  ELSE IF d.verb = "%" THEN Token(d, "percent", <<"%">>, c, lastIdx, lastIdx)
  ELSE WidthLookup(a, d, ResolveSpec(a, c, d.width), lastIdx)

\* the directive at position i of the template
Resolve(t, a, c, lastIdx, i) == ResolveParsed(a, c, lastIdx, ParseDirective(t, i))

RECURSIVE LiteralEnd(_, _)
\* the first position at or after i that holds a '%', or the end
LiteralEnd(t, i) ==
  IF i > Len(t) \/ t[i] = "%" THEN i ELSE LiteralEnd(t, i + 1)

\* the state of one render: position in the template (from 1), cursor,
\* output so far, and the directive rendered last
NewRender ==
  [i |-> 1, nextImplicitIndex |-> 0, out |-> <<>>, lastIdx |-> -1,
   last |-> NoDirective]

Done(t, c) == c.i > Len(t)

AtLiteral(t, c) == ~Done(t, c) /\ t[c.i] # "%"

AtEscape(t, c) == ~Done(t, c) /\ t[c.i] = "%" /\ At(t, c.i + 1) = "%"

AtDirective(t, c) == ~Done(t, c) /\ t[c.i] = "%" /\ At(t, c.i + 1) # "%"

\* the render state after the directive result r
Assemble(c, r) ==
  [i |-> r.end, nextImplicitIndex |-> r.next, out |-> c.out \o r.text,
   lastIdx |-> r.lastIdx, last |-> r.last]

\* the render state after the literal run that ends before position e
Literal(t, c, e) == [c EXCEPT !.i = e, !.out = @ \o SubSeq(t, c.i, e - 1)]

\* one segment of the template: a literal run, a '%%', or a directive
Step(t, a, c) ==
  IF AtLiteral(t, c) THEN Literal(t, c, LiteralEnd(t, c.i))
  ELSE IF AtEscape(t, c)
  THEN [c EXCEPT !.i = @ + 2, !.out = @ \o <<"%">>]
  ELSE Assemble(c, Resolve(t, a, c.nextImplicitIndex, c.lastIdx, c.i))

RECURSIVE Run(_, _, _)
Run(t, a, c) == IF Done(t, c) THEN c ELSE Run(t, a, Step(t, a, c))

\* the engine's entry point
sprintf(t, a) == Run(t, a, NewRender).out

(***************************************************************************)
(* Result.                                                                 *)
(***************************************************************************)
Undefined == [t |-> "undefined"]

Bool(b) == [t |-> "bool", b |-> b]

ErrorObj(m) == [t |-> "error", message |-> m]

\* the error a byte sink raises
SinkError(id) == [t |-> "sinkerror", id |-> id]

Result(isError, value, error) ==
  [t |-> "result", isError |-> isError, value |-> value, error |-> error]

Ok(value) == Result(FALSE, value, Undefined)

Err(error) == Result(TRUE, Undefined, error)

Returned(v) == [kind |-> "return", val |-> v]

Thrown(v) == [kind |-> "throw", val |-> v]

(***************************************************************************)
(* format and write.                                                       *)
(***************************************************************************)
format_unspread(fmt, a) == sprintf(fmt, <<Arr(a)>>)

format_verbatim(fmt, a) == fmt

format(fmt, a) == sprintf(fmt, a)

\* a byte sink: script[k] is how the k-th writeSync call ends ("ok" or the
\* error it raises; "ok" once the script is used up), log the calls made
writeSync(s, bytes) ==
  LET k == Len(s.log) + 1
  IN [stream  |-> [s EXCEPT !.log = Append(@, bytes)],
      outcome |-> IF k <= Len(s.script) THEN s.script[k] ELSE "ok"]

\* the first call w1 settles the result
writeResult(w1) ==
  IF w1.outcome = "ok" THEN [stream |-> w1.stream, result |-> Ok(Undefined)]
  ELSE [stream |-> w1.stream, result |-> Err(SinkError(w1.outcome))]

writeAgain(w1, bytes) ==
  IF w1.outcome = "ok" THEN writeResult(w1)
  ELSE writeResult(writeSync(w1.stream, bytes))

writeBytes_retry(s, bytes) == writeAgain(writeSync(s, bytes), bytes)

write_retry(s, fmt, a) == writeBytes_retry(s, encode(format(fmt, a)))

write(s, fmt, a) == writeResult(writeSync(s, encode(format(fmt, a))))

(***************************************************************************)
(* panic.  wrap tells the two definitions apart: the one that throws the   *)
(* formatted string and the one that throws an Error made from it.         *)
(***************************************************************************)
panic(value, a, wrap) ==
  IF value.t = "str"
  THEN Thrown(IF wrap THEN ErrorObj(sprintf(value.s, a))
              ELSE Str(sprintf(value.s, a)))
  ELSE Thrown(value)

(***************************************************************************)
(* Option: #has and #value.  A method is an operator from the receiver to  *)
(* the receiver afterwards and the outcome of the call.                    *)
(***************************************************************************)
Option(has, value) == [t |-> "option", has |-> has, value |-> value]

None == Option(FALSE, Undefined)

Some(value) == Option(TRUE, value)

Call(this, out) == [this |-> this, out |-> out]

Option_isSome(o) == Call(o, Returned(Bool(o.has)))

Option_isNone(o) == Call(o, Returned(Bool(~o.has)))

Option_expect(o, message, wrap) ==
  IF ~o.has THEN Call(o, panic(message, <<>>, wrap))
  ELSE Call(o, Returned(o.value))

Option_unwrap(o, wrap) ==
  Option_expect(o, Str(<<"O","p","t","i","o","n"," ","d","o","e","s"," ","n","o","t"," ","c","o","n","t","a","i","n"," ","a"," ","v","a","l","u","e","!">>), wrap)

Option_unwrapOr(o, value) ==
  IF o.has THEN Call(o, Returned(o.value)) ELSE Call(o, Returned(value))

\* cb is the value the callback returns
Option_unwrapOrElse(o, cb) ==
  IF o.has THEN Call(o, Returned(o.value)) ELSE Call(o, Returned(cb))

Option_insert(o, value) == Call(Option(TRUE, value), Returned(value))

Option_getOrInsert(o, value) ==
  IF o.has THEN Call(o, Returned(o.value))
  ELSE Call(Option(TRUE, value), Returned(value))

\* f is the value the callback returns; #has is left as it was
Option_getOrInsertWith(o, f) ==
  IF o.has THEN Call(o, Returned(o.value))
  ELSE Call(Option(o.has, f), Returned(f))

Option_take(o) ==
  IF o.has THEN Call(Option(FALSE, Undefined), Returned(Some(o.value)))
  ELSE Call(o, Returned(o))

Option_replace(o, value) ==
  Call(Option(TRUE, value),
       Returned(IF o.has THEN Some(o.value) ELSE None))

(***************************************************************************)
(* Result methods.  A callback is named; Apply gives what it returns.      *)
(***************************************************************************)
Callbacks == {"okNext", "errBad"}

Apply(cb, v) ==
  IF cb = "okNext"
  THEN Ok(IF v.t = "num" THEN Num(v.n + 1) ELSE v)
  ELSE Err(Str(<<"b","a","d">>))

\* out, and how many times the callback was called
RCall(out, calls) == [out |-> out, calls |-> calls]

Result_isOk(r) == RCall(Returned(Bool(~r.isError)), 0)

Result_isErr(r) == RCall(Returned(Bool(r.isError)), 0)

Result_expect(r, message, wrap) ==
  IF r.isError THEN RCall(panic(message, <<>>, wrap), 0)
  ELSE RCall(Returned(r.value), 0)

Result_expectErr(r, message, wrap) ==
  IF ~r.isError THEN RCall(panic(message, <<>>, wrap), 0)
  ELSE RCall(Returned(r.error), 0)

Result_unwrap(r, wrap) == Result_expect(r, r.error, wrap)

Result_unwrapErr(r, wrap) == Result_expectErr(r, r.value, wrap)

\* this.isErr is the method itself, a function object: always truthy
IsErrMethodTruthy == TRUE

Result_andThen(r, cb) ==
  IF ~IsErrMethodTruthy THEN RCall(Returned(Apply(cb, r.value)), 1)
  ELSE RCall(Returned(r), 0)

Result_unwrapOr(r, value) ==
  RCall(Returned(IF r.isError THEN value ELSE r.value), 0)

\* cb is the value the callback returns for the error
Result_unwrapOrElse(r, cb) ==
  IF r.isError THEN RCall(Returned(cb), 1) ELSE RCall(Returned(r.value), 0)

(***************************************************************************)
(* Inputs.                                                                 *)
(***************************************************************************)
Pieces ==
  { <<"a","=">>, <<"%","%">>, <<"%">>, <<"%","d">>, <<"%","s">>, <<"%","h">>, <<"%","x">>,
    <<"%","[","1","]","d">>, <<"%","[","2","]","s">>, <<"%","[","4","]","d">>, <<"%","*","d">>, <<"%","-","4","s">>, <<"%","0","4","d">>,
    <<"%","#","o">>, <<"%",".","*","f">>, <<"%","*","[","2","]","d">> }

RECURSIVE Concats(_)
\* the templates made of at most k pieces
Concats(k) ==
  IF k = 0 THEN {<<>>}
  ELSE Concats(k - 1) \cup {t \o p : t \in Concats(k - 1), p \in Pieces}

ArgLists ==
  { <<>>,
    <<Num(7)>>,
    <<Str(<<"W","o","r","l","d">>), Str(<<"H","e","l","l","o">>)>>,
    <<Num(1), Num(255), Str(<<"T","h","i","r","d">>)>>,
    <<Num(-5), Str(<<"x">>), Num(2)>> }

StarVerbs == {"f", "d", "s"}

StarValues == {Num(456), Num(-5), Str(<<"x","y","z">>)}

StarTemplate(v) == <<"%","*",".","*">> \o <<v>>

LiteralTemplate(w, p, v) ==
  <<"%">> \o Radix(w, 10, DecChars) \o <<".">> \o Radix(p, 10, DecChars) \o <<v>>

StarInputs ==
  {<<StarTemplate(v), <<Num(w), Num(p), x>>>> :
      v \in StarVerbs, w \in 0..MaxStar, p \in 0..MaxStar, x \in StarValues}
  \cup {<<LiteralTemplate(w, p, v), <<x>>>> :
      v \in StarVerbs, w \in 0..MaxStar, p \in 0..MaxStar, x \in StarValues}

PositionalTemplate == <<"%","[","2","]","s"," ","%","[","1","]","s">>

ReuseTemplate == <<"d","e","c","[","%","d","]","=","%","d"," ","h","e","x","[","%","[","1","]","d","]","=","%","x"," ","o","c","t","[","%","[","1","]","d","]","=","%","#","o"," ","%","s">>

Examples ==
  { <<StarTemplate("f"), <<Num(9), Num(8), Num(456)>>>>,
    <<<<"%","9",".","8","f">>, <<Num(456)>>>>,
    <<StarTemplate("f"), <<Num(12), Num(2), Num(456)>>>>,
    <<PositionalTemplate, <<Str(<<"W","o","r","l","d">>), Str(<<"H","e","l","l","o">>)>>>>,
    <<ReuseTemplate, <<Num(1), Num(255), Str(<<"T","h","i","r","d">>)>>>>,
    <<<<"%","s">>, <<Str(<<"x">>)>>>>,
    <<<<"%","5","s">>, <<Str(<<"x">>)>>>>,
    <<<<"%","-","5","s">>, <<Str(<<"x">>)>>>>,
    <<<<"%","0","5","d">>, <<Num(-5)>>>>,
    <<<<"%","-","0","5","d">>, <<Num(-5)>>>>,
    <<<<"%","5","d">>, <<Num(-5)>>>>,
    <<<<"%","h">>, <<Str(<<>>)>>>>,
    <<<<"%","[","0","]","d","%","d">>, <<Num(7)>>>>,
    <<<<"%","s","%","h","%","s">>, <<Str(<<"W","o","r","l","d">>), Str(<<"H","e","l","l","o">>)>>>>,
    <<<<"1","0","0","%","%"," ","a","=","b"," ","%","%">>, <<Str(<<"x">>)>>>> }

Inputs == (Concats(MaxPieces) \X ArgLists) \cup StarInputs \cup Examples

Scripts == {<<"ok">>, <<"E1">>, <<"E2", "ok">>}

NoRet == [kind |-> "none", val |-> Undefined]

NoRes == [t |-> "none"]

NoCall == [op |-> "none"]

Vals == {Num(k) : k \in 0..MaxVal}

Messages == {Str(<<"b","o","o","m">>), Str(<<"%","d"," ","l","e","f","t">>)}

Errors == {Str(<<"b","a","d">>), Str(<<"c","o","d","e"," ","%","d">>), ErrorObj(<<"E","1">>)}

(***************************************************************************)
(* format and write: one render, its return, then one write.               *)
(***************************************************************************)
Init ==
  /\ \E in \in Inputs : formatter = in[1] /\ args = in[2]
  /\ cur = NewRender
  /\ ret = NoRet
  /\ stream \in {[script |-> s, log |-> <<>>] : s \in Scripts}
  /\ wres = NoRes
  /\ opt = None /\ oret = NoCall
  /\ res = Ok(Undefined) /\ rret = NoCall

ScanLiteral ==
  /\ AtLiteral(formatter, cur)
  /\ cur' = Step(formatter, args, cur)
  /\ UNCHANGED <<formatter, args, ret, stream, wres, opt, oret, res, rret>>

ScanEscape ==
  /\ AtEscape(formatter, cur)
  /\ cur' = Step(formatter, args, cur)
  /\ UNCHANGED <<formatter, args, ret, stream, wres, opt, oret, res, rret>>

RenderDirective ==
  /\ AtDirective(formatter, cur)
  /\ cur' = Step(formatter, args, cur)
  /\ UNCHANGED <<formatter, args, ret, stream, wres, opt, oret, res, rret>>

FormatReturn ==
  /\ Done(formatter, cur)
  /\ ret = NoRet
  /\ ret' = Returned(Str(format(formatter, args)))
  /\ UNCHANGED <<formatter, args, cur, stream, wres, opt, oret, res, rret>>

Write ==
  /\ ret # NoRet
  /\ wres = NoRes
  /\ LET w == write(stream, formatter, args)
     IN stream' = w.stream /\ wres' = w.result
  /\ UNCHANGED <<formatter, args, cur, ret, opt, oret, res, rret>>

Next == ScanLiteral \/ ScanEscape \/ RenderDirective \/ FormatReturn \/ Write

Spec == Init /\ [][Next]_vars

(***************************************************************************)
(* Option: any sequence of calls on one Option.                            *)
(***************************************************************************)
InitOption ==
  /\ formatter = <<>> /\ args = <<>> /\ cur = NewRender /\ ret = NoRet
  /\ stream = [script |-> <<>>, log |-> <<>>] /\ wres = NoRes
  /\ opt \in {None} \cup {Some(v) : v \in Vals}
  /\ oret = NoCall
  /\ res = Ok(Undefined) /\ rret = NoCall

\* the call recorded: the method, its argument, the receiver before, the outcome
OCall(op, arg, c) == [op |-> op, arg |-> arg, pre |-> opt, out |-> c.out]

IsSome ==
  /\ opt' = Option_isSome(opt).this
  /\ oret' = OCall("isSome", Undefined, Option_isSome(opt))
  /\ UNCHANGED <<fmtVars, resVars>>

IsNone ==
  /\ opt' = Option_isNone(opt).this
  /\ oret' = OCall("isNone", Undefined, Option_isNone(opt))
  /\ UNCHANGED <<fmtVars, resVars>>

Expect ==
  \E m \in Messages, wrap \in BOOLEAN :
    /\ opt' = Option_expect(opt, m, wrap).this
    /\ oret' = OCall("expect", m, Option_expect(opt, m, wrap))
    /\ UNCHANGED <<fmtVars, resVars>>

Unwrap ==
  \E wrap \in BOOLEAN :
    /\ opt' = Option_unwrap(opt, wrap).this
    /\ oret' = OCall("unwrap", Undefined, Option_unwrap(opt, wrap))
    /\ UNCHANGED <<fmtVars, resVars>>

UnwrapOr ==
  \E v \in Vals :
    /\ opt' = Option_unwrapOr(opt, v).this
    /\ oret' = OCall("unwrapOr", v, Option_unwrapOr(opt, v))
    /\ UNCHANGED <<fmtVars, resVars>>

UnwrapOrElse ==
  \E v \in Vals :
    /\ opt' = Option_unwrapOrElse(opt, v).this
    /\ oret' = OCall("unwrapOrElse", v, Option_unwrapOrElse(opt, v))
    /\ UNCHANGED <<fmtVars, resVars>>

Insert ==
  \E v \in Vals :
    /\ opt' = Option_insert(opt, v).this
    /\ oret' = OCall("insert", v, Option_insert(opt, v))
    /\ UNCHANGED <<fmtVars, resVars>>

GetOrInsert ==
  \E v \in Vals :
    /\ opt' = Option_getOrInsert(opt, v).this
    /\ oret' = OCall("getOrInsert", v, Option_getOrInsert(opt, v))
    /\ UNCHANGED <<fmtVars, resVars>>

GetOrInsertWith ==
  \E v \in Vals :
    /\ opt' = Option_getOrInsertWith(opt, v).this
    /\ oret' = OCall("getOrInsertWith", v, Option_getOrInsertWith(opt, v))
    /\ UNCHANGED <<fmtVars, resVars>>

TakeOp ==
  /\ opt' = Option_take(opt).this
  /\ oret' = OCall("take", Undefined, Option_take(opt))
  /\ UNCHANGED <<fmtVars, resVars>>

Replace ==
  \E v \in Vals :
    /\ opt' = Option_replace(opt, v).this
    /\ oret' = OCall("replace", v, Option_replace(opt, v))
    /\ UNCHANGED <<fmtVars, resVars>>

NextOption ==
  \/ IsSome \/ IsNone \/ Expect \/ Unwrap \/ UnwrapOr \/ UnwrapOrElse
  \/ Insert \/ GetOrInsert \/ GetOrInsertWith \/ TakeOp \/ Replace

SpecOption == InitOption /\ [][NextOption]_vars

(***************************************************************************)
(* Result: one call on one Result.                                         *)
(***************************************************************************)
InitResult ==
  /\ formatter = <<>> /\ args = <<>> /\ cur = NewRender /\ ret = NoRet
  /\ stream = [script |-> <<>>, log |-> <<>>] /\ wres = NoRes
  /\ opt = None /\ oret = NoCall
  /\ res \in {Ok(v) : v \in Vals} \cup {Err(e) : e \in Errors}
  /\ rret = NoCall

\* the call recorded: the method, its argument, the outcome, the callback calls
RCallOp(op, arg, c) == [op |-> op, arg |-> arg, out |-> c.out, calls |-> c.calls]

RIsOk ==
  /\ rret' = RCallOp("isOk", Undefined, Result_isOk(res))
  /\ UNCHANGED <<fmtVars, optVars, res>>

RIsErr ==
  /\ rret' = RCallOp("isErr", Undefined, Result_isErr(res))
  /\ UNCHANGED <<fmtVars, optVars, res>>

RExpect ==
  \E m \in Messages, wrap \in BOOLEAN :
    /\ rret' = RCallOp("expect", m, Result_expect(res, m, wrap))
    /\ UNCHANGED <<fmtVars, optVars, res>>

RExpectErr ==
  \E m \in Messages, wrap \in BOOLEAN :
    /\ rret' = RCallOp("expectErr", m, Result_expectErr(res, m, wrap))
    /\ UNCHANGED <<fmtVars, optVars, res>>

RUnwrap ==
  \E wrap \in BOOLEAN :
    /\ rret' = RCallOp("unwrap", Undefined, Result_unwrap(res, wrap))
    /\ UNCHANGED <<fmtVars, optVars, res>>

RUnwrapErr ==
  \E wrap \in BOOLEAN :
    /\ rret' = RCallOp("unwrapErr", Undefined, Result_unwrapErr(res, wrap))
    /\ UNCHANGED <<fmtVars, optVars, res>>

RAndThen ==
  \E cb \in Callbacks :
    /\ rret' = RCallOp("andThen", Str(<<cb>>), Result_andThen(res, cb))
    /\ UNCHANGED <<fmtVars, optVars, res>>

RUnwrapOr ==
  \E v \in Vals :
    /\ rret' = RCallOp("unwrapOr", v, Result_unwrapOr(res, v))
    /\ UNCHANGED <<fmtVars, optVars, res>>

RUnwrapOrElse ==
  \E v \in Vals :
    /\ rret' = RCallOp("unwrapOrElse", v, Result_unwrapOrElse(res, v))
    /\ UNCHANGED <<fmtVars, optVars, res>>

NextResult ==
  \/ RIsOk \/ RIsErr \/ RExpect \/ RExpectErr \/ RUnwrap \/ RUnwrapErr
  \/ RAndThen \/ RUnwrapOr \/ RUnwrapOrElse

SpecResult == InitResult /\ [][NextResult]_vars

(***************************************************************************)
(* Properties.                                                             *)
(***************************************************************************)
RECURSIVE RunTo(_, _, _, _)
\* the render state on reaching position k of the template, or the first
\* segment boundary after it
RunTo(t, a, c, k) ==
  IF Done(t, c) \/ c.i >= k THEN c ELSE RunTo(t, a, Step(t, a, c), k)

StateAt(k) == RunTo(formatter, args, NewRender, k)

\* what the render appends from position k on, the cursor being that of c
RestFrom(k, c) ==
  Run(formatter, args, [c EXCEPT !.i = k, !.out = <<>>]).out

\* position k starts a directive whose verb character is v, with no index,
\* flag, width or precision
PlainDirectiveAt(k, v) ==
  /\ StateAt(k).i = k
  /\ At(formatter, k) = "%"
  /\ At(formatter, k + 1) = v

\* C1: write makes exactly one writeSync call, with the encoded output of
\* format; it returns Ok when the call returns and Err carrying the sink's
\* error when the call raises, and does not call the sink again.
C1_WriteOnce ==
  /\ wres = NoRes => stream.log = <<>>
  /\ wres # NoRes =>
       /\ Len(stream.log) = 1
       /\ stream.log[1] = encode(ret.val.s)
       /\ Len(stream.log[1]) = Len(cur.out)
       /\ formatter = <<"%","5","s">> /\ args = <<Str(<<"x">>)>>
            => stream.log[1] = <<32, 32, 32, 32, 120>>
       /\ stream.script[1] = "ok" => wres = Ok(Undefined)
       /\ stream.script[1] # "ok" =>
            /\ wres.isError
            /\ wres.error = SinkError(stream.script[1])

C1_Witness ==
  /\ wres = Err(SinkError("E2"))
  /\ Len(stream.log) = 1
  /\ formatter = <<"%","5","s">>

\* C2: format returns a string in which a directive with the unknown verb
\* 'h' is rendered as %!(BAD VERB 'h') and a directive 'd' with no argument
\* left as %!(MISSING 'd'), the text and directives before and after the
\* token being rendered as they are without it.
C2_ErrorTokens ==
  ret # NoRet =>
    /\ ret.kind = "return"
    /\ ret.val.t = "str"
    /\ \A k \in 1..Len(formatter) :
         /\ PlainDirectiveAt(k, "h") =>
              ret.val.s = format(SubSeq(formatter, 1, k - 1), args)
                            \o <<"%","!","(","B","A","D"," ","V","E","R","B"," ","'","h","'",")">>
                            \o RestFrom(k + 2, StateAt(k))
         /\ (PlainDirectiveAt(k, "d")
               /\ StateAt(k).nextImplicitIndex >= Len(args)) =>
              ret.val.s = format(SubSeq(formatter, 1, k - 1), args)
                            \o <<"%","!","(","M","I","S","S","I","N","G"," ","'","d","'",")">>
                            \o RestFrom(k + 2, StateAt(k))
    /\ formatter = <<"%","h">> => ret.val.s = <<"%","!","(","B","A","D"," ","V","E","R","B"," ","'","h","'",")">>
    /\ formatter = <<"%","d">> /\ args = <<>> => ret.val.s = <<"%","!","(","M","I","S","S","I","N","G"," ","'","d","'",")">>
    /\ formatter = <<"%","d","%","d">> /\ args = <<Num(7)>>
         => ret.val.s = <<"7","%","!","(","M","I","S","S","I","N","G"," ","'","d","'",")">>

C2_Witness ==
  /\ formatter = <<"%","s","%","h","%","s">>
  /\ ret = Returned(Str(<<"W","o","r","l","d","%","!","(","B","A","D"," ","V","E","R","B"," ","'","h","'",")","H","e","l","l","o">>))

\* C3: during a render the cursor stays within 0..len(args); a directive is
\* padded output only when the argument it read exists, and a directive
\* whose explicit index lies outside the argument list yields the missing
\* argument token, which ends the returned string when the directive ends
\* the template.
C3_CursorInBounds ==
  /\ cur.nextImplicitIndex \in 0..Len(args)
  /\ cur.last.kind = "padded" => cur.last.argIdx \in 0..(Len(args) - 1)
  /\ (/\ cur.last.kind \in {"padded", "missing", "badtype"}
      /\ cur.last.dir.hasIndex
      /\ cur.last.dir.width.kind \in {"absent", "literal"}
      /\ cur.last.dir.precision.kind \in {"absent", "literal"}
      /\ cur.last.dir.explicitIndex \notin 1..Len(args))
       => /\ cur.last.kind = "missing"
          /\ cur.last.text = <<"%","!","(","M","I","S","S","I","N","G"," ","'">> \o <<cur.last.dir.verb>> \o <<"'",")">>
  /\ (/\ ret # NoRet
      /\ cur.last.kind = "missing"
      /\ cur.last.dir.end = Len(formatter) + 1)
       => LET tok == <<"%","!","(","M","I","S","S","I","N","G"," ","'">> \o <<cur.last.dir.verb>> \o <<"'",")">>
              n   == Len(ret.val.s)
          IN /\ n >= Len(tok)
             /\ SubSeq(ret.val.s, n - Len(tok) + 1, n) = tok

C3_Witness ==
  /\ formatter = <<"%","[","2","]","s","%","[","4","]","d">>
  /\ Len(args) = 3
  /\ cur.last.kind = "missing"
  /\ cur.last.dir.explicitIndex = 4
  /\ cur.nextImplicitIndex = 2
  /\ ret # NoRet

\* C4: a directive with explicit index [n] consumes the n-th argument, a
\* directive without one (and without '*') consumes the argument after the
\* one consumed last; the two documented examples render as documented.
C4_Positional ==
  /\ cur.last.kind = "padded" =>
       /\ cur.last.dir.hasIndex => cur.last.argIdx = cur.last.dir.explicitIndex - 1
       /\ (/\ ~cur.last.dir.hasIndex
           /\ cur.last.dir.width.kind # "fromArg"
           /\ cur.last.dir.precision.kind # "fromArg")
            => cur.last.argIdx = cur.last.before + 1
       /\ cur.nextImplicitIndex = cur.last.argIdx + 1
  /\ (ret # NoRet /\ formatter = PositionalTemplate
        /\ args = <<Str(<<"W","o","r","l","d">>), Str(<<"H","e","l","l","o">>)>>)
       => ret.val.s = <<"H","e","l","l","o"," ","W","o","r","l","d">>
  /\ (ret # NoRet /\ formatter = ReuseTemplate
        /\ args = <<Num(1), Num(255), Str(<<"T","h","i","r","d">>)>>)
       => ret.val.s = <<"d","e","c","[","1","]","=","2","5","5"," ","h","e","x","[","1","]","=","0","x","f","f"," ","o","c","t","[","1","]","=","0","3","7","7"," ","T","h","i","r","d">>

IsNat(v) == v.t = "num" /\ v.n >= 0

\* C5: with non-negative width w and precision p, "%*.*v" applied to
\* (w, p, x) renders what "%w.pv" renders applied to x; the two '*' consume
\* the first two arguments and the verb the third.
C5_StarEquivalence ==
  (/\ ret # NoRet
   /\ \E v \in StarVerbs : formatter = StarTemplate(v)
   /\ Len(args) = 3 /\ IsNat(args[1]) /\ IsNat(args[2]))
    => /\ ret.val.s = format(LiteralTemplate(args[1].n, args[2].n,
                                             formatter[Len(formatter)]),
                             <<args[3]>>)
       /\ cur.nextImplicitIndex = 3
       /\ cur.last.kind = "padded" => cur.last.argIdx = 2
       /\ args = <<Num(9), Num(8), Num(456)>> /\ formatter = StarTemplate("f")
            => ret.val.s = <<"4","5","6",".","0","0","0","0","0","0","0","0">>
       /\ args = <<Num(12), Num(2), Num(456)>> /\ formatter = StarTemplate("f")
            => ret.val.s = <<" "," "," "," "," "," ","4","5","6",".","0","0">>

C5_Witness ==
  /\ formatter = StarTemplate("f")
  /\ args = <<Num(3), Num(0), Num(-5)>>
  /\ ret = Returned(Str(<<" ","-","5">>))

AllAre(s, c) == \A k \in 1..Len(s) : s[k] = c

\* C6: the padder returns an unpadded string of at least w characters as it
\* is and otherwise exactly w characters: spaces on the left by default,
\* '0' between sign and digits with the '0' flag and no '-' flag, spaces on
\* the right with the '-' flag.
C6_Padder ==
  /\ cur.last.kind = "padded" =>
       LET s    == cur.last.sign \o cur.last.body
           w    == cur.last.width
           f    == cur.last.dir.flags
           text == cur.last.text
           n    == Len(text) - Len(s)
       IN /\ Len(s) >= w => text = s
          /\ Len(s) < w =>
               /\ Len(text) = w
               /\ "-" \in f =>
                    /\ SubSeq(text, 1, Len(s)) = s
                    /\ AllAre(SubSeq(text, Len(s) + 1, w), " ")
               /\ ("-" \notin f /\ "0" \in f) =>
                    /\ SubSeq(text, 1, Len(cur.last.sign)) = cur.last.sign
                    /\ AllAre(SubSeq(text, Len(cur.last.sign) + 1,
                                     Len(cur.last.sign) + n), "0")
                    /\ SubSeq(text, Len(cur.last.sign) + n + 1, w) = cur.last.body
               /\ ("-" \notin f /\ "0" \notin f) =>
                    /\ AllAre(SubSeq(text, 1, n), " ")
                    /\ SubSeq(text, n + 1, w) = s
  /\ ret # NoRet /\ args = <<Str(<<"x">>)>> =>
       /\ formatter = <<"%","s">> => ret.val.s = <<"x">>
       /\ formatter = <<"%","5","s">> => ret.val.s = <<" "," "," "," ","x">>
       /\ formatter = <<"%","-","5","s">> => ret.val.s = <<"x"," "," "," "," ">>
  /\ ret # NoRet /\ args = <<Num(-5)>> =>
       /\ formatter = <<"%","0","5","d">> => ret.val.s = <<"-","0","0","0","5">>
       /\ formatter = <<"%","-","0","5","d">> => ret.val.s = <<"-","5"," "," "," ">>
       /\ formatter = <<"%","5","d">> => ret.val.s = <<" "," "," ","-","5">>

C6_Witness ==
  /\ formatter = <<"%","0","5","d">>
  /\ cur.last.kind = "padded"
  /\ cur.last.sign = <<"-">>
  /\ ret = Returned(Str(<<"-","0","0","0","5">>))

RECURSIVE LiteralOnly(_)
\* every '%' of t is the first or the second of a '%%' pair
LiteralOnly(t) ==
  IF Len(t) = 0 THEN TRUE
  ELSE IF t[1] # "%" THEN LiteralOnly(Tail(t))
  ELSE Len(t) >= 2 /\ t[2] = "%" /\ LiteralOnly(Tail(Tail(t)))

RECURSIVE Collapse(_)
\* t with each '%%' pair replaced by one '%'
Collapse(t) ==
  IF Len(t) = 0 THEN <<>>
  ELSE IF t[1] = "%" /\ Len(t) >= 2 /\ t[2] = "%"
  THEN <<"%">> \o Collapse(Tail(Tail(t)))
  ELSE <<t[1]>> \o Collapse(Tail(t))

\* C7: for a template whose only '%' are in '%%' pairs, format returns the
\* template with each pair collapsed to one '%', and no argument is consumed.
C7_LiteralOnly ==
  (ret # NoRet /\ LiteralOnly(formatter)) =>
    /\ ret.val.s = Collapse(formatter)
    /\ cur.nextImplicitIndex = 0
    /\ cur.lastIdx = -1
    /\ cur.last.argIdx = -1

C7_Witness ==
  /\ formatter = <<"1","0","0","%","%"," ","a","=","b"," ","%","%">>
  /\ ret = Returned(Str(<<"1","0","0","%"," ","a","=","b"," ","%">>))

Carries(out, m) == out.val = Str(m) \/ out.val = ErrorObj(m)

\* C8: expect and unwrap raise exactly when the container holds no value,
\* the raised value carrying the given message (expect), "Option does not
\* contain a value!" (Option.unwrap) or the error (Result.unwrap), and
\* return the contained value otherwise; unwrapOr and unwrapOrElse return.
C8_UnwrapAborts ==
  /\ oret.op \in {"expect", "unwrap"} =>
       IF oret.pre.has THEN oret.out = Returned(oret.pre.value)
       ELSE /\ oret.out.kind = "throw"
            /\ oret.op = "expect" => Carries(oret.out, oret.arg.s)
            /\ oret.op = "unwrap" =>
                 Carries(oret.out, <<"O","p","t","i","o","n"," ","d","o","e","s"," ","n","o","t"," ","c","o","n","t","a","i","n"," ","a"," ","v","a","l","u","e","!">>)
  /\ oret.op \in {"unwrapOr", "unwrapOrElse"} => oret.out.kind = "return"
  /\ rret.op \in {"expect", "unwrap"} =>
       IF ~res.isError THEN rret.out = Returned(res.value)
       ELSE /\ rret.out.kind = "throw"
            /\ rret.op = "expect" => Carries(rret.out, rret.arg.s)
            /\ rret.op = "unwrap" =>
                 \/ rret.out.val = res.error
                 \/ res.error.t = "str" /\ Carries(rret.out, res.error.s)
  /\ rret.op \in {"unwrapOr", "unwrapOrElse"} => rret.out.kind = "return"

\* C9: andThen on an Ok result calls the callback once with the contained
\* value and returns what it returns; on an Err result it does not call it
\* and returns the receiver.
C9_AndThen ==
  rret.op = "andThen" =>
    IF ~res.isError
    THEN /\ rret.calls = 1
         /\ rret.out = Returned(Apply(rret.arg.s[1], res.value))
    ELSE /\ rret.calls = 0
         /\ rret.out = Returned(res)

\* C10: after insert, getOrInsert, getOrInsertWith or replace, isSome() is
\* true and unwrap() returns the value now held; after take(), isNone() is
\* true and the returned option holds the value taken when there was one.
C10_PresenceAgrees ==
  /\ oret.op \in {"insert", "getOrInsert", "getOrInsertWith", "replace"} =>
       /\ Option_isSome(opt).out = Returned(Bool(TRUE))
       /\ \A wrap \in BOOLEAN :
            Option_unwrap(opt, wrap).out =
              Returned(IF oret.op = "replace" THEN oret.arg ELSE oret.out.val)
  /\ oret.op = "take" =>
       /\ Option_isNone(opt).out = Returned(Bool(TRUE))
       /\ oret.pre.has => oret.out = Returned(Some(oret.pre.value))

====
